---- MODULE Spec2Model ----
(***************************************************************************)
(* Model of auto_prepare (src/auto_prepare.py): a fitting phase over a     *)
(* head sample of the input dataset (column classification, imputer fit,   *)
(* encoder fit, feature selection) followed by a transform phase that      *)
(* replays the fitted objects over the input in chunks and writes each     *)
(* transformed chunk to the output dataset's writer.                       *)
(*                                                                         *)
(* Cells are options: <<>> is a missing value (NaN / None), <<v>> holds v. *)
(* Scores (R2, mutual information) and thresholds are scaled by 100 to     *)
(* stay in the integers; the scores themselves are the results of library  *)
(* calls (LinearRegression, r2_score, mutual_info_regression) and are      *)
(* drawn nondeterministically.                                             *)
(***************************************************************************)
EXTENDS Integers, Sequences, FiniteSets, TLC

VARIABLES
    src,                \* the input dataset: [columns, rows]
    args,               \* the arguments of auto_prepare
    pc,                 \* position in auto_prepare
    err,                \* the exception that left auto_prepare, or "none"
    df_sample,          \* rows of the sample (line 38)
    numeric_cols,       \* line 48
    categorical_cols,   \* line 49
    imputer,            \* line 55-59
    encoder,            \* line 67-91
    encoded_feature_names, \* line 68, 82, 93
    candidates,         \* X_eval.columns (line 123)
    col_idx,            \* position of the selection loop in candidates
    scores,             \* per evaluated feature: r2 and, if computed, mi
    selected_features,  \* line 121, 143
    writer,             \* the output dataset's writer
    chunk_count,        \* line 165, 167
    cursor,             \* rows of the source consumed by iter_dataframes
    df_chunk,           \* rows of the chunk being processed (line 166)
    X_chunk_num,        \* line 175-178
    X_chunk_cat_encoded, \* line 181-193
    mi_log,             \* the features mutual_info_regression was called for
    y_encoded,          \* line 114-119: the target values used for scoring
    output,             \* the output dataset: prior content, clear and schema calls
    is_first_chunk,     \* fast_copy, line 17
    results,            \* fast_copy: current_df after the chain, per chunk read
    folder,             \* oswrapper: the managed folder
    all_paths,          \* list_files, line 27
    returned            \* list_files: the list returned

vars == <<src, args, pc, err, df_sample, numeric_cols, categorical_cols,
          imputer, encoder, encoded_feature_names, candidates, col_idx,
          scores, selected_features, writer, chunk_count, cursor, df_chunk,
          X_chunk_num, X_chunk_cat_encoded, mi_log, y_encoded, output, is_first_chunk,
          results,
          folder, all_paths, returned>>

----------------------------------------------------------------------------
(* Bounds of the model *)

\* rows of the input dataset
MaxRows == 2

\* rows of the input dataset in the runs over the categorical column alone
MaxCatRows == 3

\* rows of the input dataset in the runs with failing chunks and fast_copy
MaxIORows == 3

\* rows of the input dataset in the runs over several thresholds
MaxSelRows == 1

\* rows of the input dataset in the runs with a text target
MaxTargetRows == 2

----------------------------------------------------------------------------
(* Values *)

NA == <<>>

Some(v) == <<v>>

Min(a, b) == IF a <= b THEN a ELSE b

Range(s) == {s[i] : i \in 1..Len(s)}

RECURSIVE GCD(_, _)
GCD(a, b) == IF b = 0 THEN a ELSE GCD(b, a % b)

\* an exact rational n/d, d > 0, in lowest terms
Frac(n, d) == [num |-> n \div GCD(n, d), den |-> d \div GCD(n, d)]

RECURSIVE SumSeq(_)
SumSeq(s) == IF s = <<>> THEN 0 ELSE Head(s) + SumSeq(Tail(s))

----------------------------------------------------------------------------
(* The input dataset and the arguments *)

\* The schemas of the input: a numeric feature n1, a text feature c1 and the
\* numeric column y that the caller names as the target. (A date column d1
\* appears in TypeDatasets only.)
Schemas ==
    { <<"n1", "c1", "y">>, <<"n1", "y">>, <<"c1", "y">>, <<"n1", "c1">>, <<"y">> }

\* pandas dtype of a column
Dtype(c) ==
    IF c \in {"n1", "y", "c1_a"} THEN "number"
    ELSE IF c \in {"c1", "t"} THEN "object"
    ELSE "datetime64"

ColumnValues(c) ==
    CASE c = "n1" -> {NA, Some(1), Some(2)}
      [] c = "c1" -> {NA, Some("a"), Some("b")}
      [] c = "y"  -> {NA, Some(1)}
      [] c = "d1" -> {NA, Some("2024-01-01")}
      [] c = "t"  -> {NA, Some("a"), Some("b"), Some("c")}
      [] c = "c1_a" -> {NA, Some(1)}

EmptyRow == [c \in {} |-> NA]

RECURSIVE RowsOver(_)
RowsOver(cols) ==
    IF cols = <<>> THEN {EmptyRow}
    ELSE {(Head(cols) :> v) @@ r :
              v \in ColumnValues(Head(cols)), r \in RowsOver(Tail(cols))}

DatasetsOver(cols, max) ==
    {[columns |-> cols, rows |-> rs] :
        rs \in UNION {[1..n -> RowsOver(cols)] : n \in 1..max}}

Datasets == UNION {DatasetsOver(cols, MaxRows) : cols \in Schemas}

\* longer inputs with the text feature only
CatDatasets == DatasetsOver(<<"c1", "y">>, MaxCatRows)

\* thresholds of the signature, 0.05 and 0.01, scaled by 100
DefaultR2Threshold == 5

DefaultMiThreshold == 1

Arguments ==
    [target_column     : {"y"},
     impute_strategy   : {"mean", "most_frequent"},
     encoding_strategy : {"label", "onehot", "binary"},
     r2_threshold      : {DefaultR2Threshold},
     mi_threshold      : {DefaultMiThreshold},
     sampling_limit    : {1, 2},
     chunk_size        : {1, 2}]

CatArguments == {a \in Arguments : a.impute_strategy = "mean"}

IOArguments ==
    {a \in Arguments : a.impute_strategy = "mean" /\ a.encoding_strategy = "label"}

\* inputs whose target t is text
TextTargetDatasets == DatasetsOver(<<"n1", "t">>, MaxTargetRows)

TextTargetArguments ==
    {[a EXCEPT !.target_column = "t"] : a \in IOArguments}

\* inputs whose target has the name of a one-hot column of the feature c1
NameDatasets == DatasetsOver(<<"c1", "c1_a">>, MaxRows)

NameArguments ==
    {[a EXCEPT !.target_column = "c1_a"] : a \in CatArguments}

\* inputs with a date column beside the numeric one
TypeDatasets == DatasetsOver(<<"n1", "d1", "y">>, MaxRows)

\* inputs and arguments of the runs over several thresholds
SelDatasets == DatasetsOver(<<"n1", "c1", "y">>, MaxSelRows)

R2Thresholds == {DefaultR2Threshold - 1, DefaultR2Threshold}

MiThresholds == {DefaultMiThreshold - 1, DefaultMiThreshold}

SelArguments ==
    [target_column     : {"y"},
     impute_strategy   : {"mean"},
     encoding_strategy : {"label", "onehot"},
     r2_threshold      : R2Thresholds,
     mi_threshold      : MiThresholds,
     sampling_limit    : {1, 2},
     chunk_size        : {1, 2}]

\* results of r2_score and mutual_info_regression, scaled by 100
R2Scores == {DefaultR2Threshold - 1, DefaultR2Threshold}

MiScores == {DefaultMiThreshold - 1, DefaultMiThreshold}

----------------------------------------------------------------------------
(* pandas helpers *)

\* DataFrame.drop(columns=[c]).columns
DropColumn(cols, c) == SelectSeq(cols, LAMBDA x : x # c)

\* select_dtypes(include=...).columns.tolist()
SelectDtypes(cols, kinds) == SelectSeq(cols, LAMBDA x : Dtype(x) \in kinds)

\* get_dataframe(sampling='head', limit=n)
HeadRows(rows, n) == SubSeq(rows, 1, Min(n, Len(rows)))

\* the values of one column that are not missing, in row order
Observed(rows, c) ==
    LET present == SelectSeq(rows, LAMBDA r : r[c] # NA)
    IN  [i \in 1..Len(present) |-> present[i][c][1]]

\* fillna("Missing") on one cell
FillNa(cell) == IF cell = NA THEN "Missing" ELSE cell[1]

----------------------------------------------------------------------------
(* SimpleImputer *)

Count(s, v) == Cardinality({i \in 1..Len(s) : s[i] = v})

\* strategy 'most_frequent': the most frequent value, the smallest on a tie
MostFrequent(s) ==
    CHOOSE v \in Range(s) :
        \A w \in Range(s) :
            \/ Count(s, w) < Count(s, v)
            \/ Count(s, w) = Count(s, v) /\ v <= w

\* SimpleImputer(strategy).fit(X[cols]).statistics_
ImputerFit(strategy, rows, cols) ==
    [c \in Range(cols) |->
        LET obs == Observed(rows, c)
        IN  IF strategy = "mean" THEN Frac(SumSeq(obs), Len(obs))
            ELSE Frac(MostFrequent(obs), 1)]

\* imputer.transform on one cell of column c
ImputerTransform(statistics, c, cell) ==
    IF cell = NA THEN statistics[c] ELSE Frac(cell[1], 1)

----------------------------------------------------------------------------
(* OrdinalEncoder and OneHotEncoder *)

\* the order of Python's str comparison on the values of the model
CatOrder == <<"Missing", "a", "b">>

\* the same order on the values of a text target
StrOrder == <<"a", "b", "c">>

\* encoder.fit(X[cols]).categories_: per column the sorted distinct values
EncoderFit(rows, cols) ==
    [c \in Range(cols) |->
        SelectSeq(CatOrder,
                  LAMBDA v : \E i \in 1..Len(rows) : FillNa(rows[i][c]) = v)]

\* variant: an unknown value gets the next free code instead of u
OrdinalTransformNextCode(categories, u, c, v) ==
    IF \E i \in 1..Len(categories[c]) : categories[c][i] = v
    THEN (CHOOSE i \in 1..Len(categories[c]) : categories[c][i] = v) - 1
    ELSE Len(categories[c])

\* OrdinalEncoder(handle_unknown='use_encoded_value', unknown_value=u).transform
OrdinalTransform(categories, u, c, v) ==
    IF \E i \in 1..Len(categories[c]) : categories[c][i] = v
    THEN (CHOOSE i \in 1..Len(categories[c]) : categories[c][i] = v) - 1
    ELSE u

\* the (column, category) pairs behind the one-hot output columns
RECURSIVE OneHotPairs(_, _)
OneHotPairs(categories, cols) ==
    IF cols = <<>> THEN <<>>
    ELSE [i \in 1..Len(categories[Head(cols)]) |->
              <<Head(cols), categories[Head(cols)][i]>>]
         \o OneHotPairs(categories, Tail(cols))

\* encoder.get_feature_names_out(cols)
GetFeatureNamesOut(categories, cols) ==
    LET pairs == OneHotPairs(categories, cols)
    IN  [i \in 1..Len(pairs) |-> pairs[i][1] \o "_" \o pairs[i][2]]

\* variant: the indicators are derived from the values of the row itself
OneHotTransformOwnValues(categories, cols, row) ==
    [i \in 1..Len(cols) |-> 1]

\* OneHotEncoder(handle_unknown='ignore').transform on one row: the indicator
\* vector over the fitted categories
OneHotTransform(categories, cols, row) ==
    LET pairs == OneHotPairs(categories, cols)
    IN  [i \in 1..Len(pairs) |->
            IF FillNa(row[pairs[i][1]]) = pairs[i][2] THEN 1 ELSE 0]

----------------------------------------------------------------------------
(* Data frames: column labels and a matrix of rows aligned with them *)

\* pd.DataFrame(index=...) with n rows and no column
EmptyFrame(n) == [columns |-> <<>>, data |-> [i \in 1..n |-> <<>>]]

\* pd.DataFrame(matrix, columns=cols)
Frame(matrix, cols) == [columns |-> cols, data |-> matrix]

\* pd.concat([f, g], axis=1)
Concat(f, g) ==
    [columns |-> f.columns \o g.columns,
     data    |-> [i \in 1..Len(f.data) |-> f.data[i] \o g.data[i]]]

IndexOf(s, x) == CHOOSE i \in 1..Len(s) : s[i] = x

\* frame[names]
SelectColumns(f, names) ==
    [columns |-> names,
     data    |-> [i \in 1..Len(f.data) |->
                     [j \in 1..Len(names) |->
                         f.data[i][IndexOf(f.columns, names[j])]]]]

\* frame[c] = values: a column labelled c is replaced where it stands, a new
\* label is added at the end
SetColumn(f, c, values) ==
    IF \E j \in 1..Len(f.columns) : f.columns[j] = c
    THEN [columns |-> f.columns,
          data    |-> [i \in 1..Len(f.data) |->
                          [f.data[i] EXCEPT ![IndexOf(f.columns, c)] = values[i]]]]
    ELSE [columns |-> Append(f.columns, c),
          data    |-> [i \in 1..Len(f.data) |-> Append(f.data[i], values[i])]]

\* imputer.transform(X[cols]) as a matrix
ImputedMatrix(statistics, cols, rows) ==
    [i \in 1..Len(rows) |->
        [j \in 1..Len(cols) |-> ImputerTransform(statistics, cols[j], rows[i][cols[j]])]]

\* OrdinalEncoder.transform(X[cols]) as a matrix, after fillna("Missing")
OrdinalMatrix(enc, cols, rows) ==
    [i \in 1..Len(rows) |->
        [j \in 1..Len(cols) |->
            OrdinalTransform(enc.categories_, enc.unknown_value, cols[j],
                             FillNa(rows[i][cols[j]]))]]

\* OneHotEncoder.transform(X[cols]) as a matrix, after fillna("Missing")
OneHotMatrix(enc, cols, rows) ==
    [i \in 1..Len(rows) |-> OneHotTransform(enc.categories_, cols, rows[i])]

----------------------------------------------------------------------------
(* auto_prepare *)

NoWriter == [opened |-> 0, closed |-> 0, written |-> <<>>]

\* no managed folder takes part in auto_prepare and fast_copy
NoFolder == [files |-> <<>>, calls |-> <<>>]

\* the output dataset before the run: it holds the rows of an earlier build;
\* clear() and write_schema_from_dataframe() have not been called
PriorOutput == [prior |-> TRUE, clear_calls |-> 0, schemas |-> <<>>]

\* every numeric feature has an observed value in the sample (SimpleImputer
\* drops a column without one; such inputs are outside the model)
Fittable(d, a) ==
    \A c \in Range(d.columns) :
        (c # a.target_column /\ Dtype(c) = "number")
            => Observed(HeadRows(d.rows, a.sampling_limit), c) # <<>>

\* the state at the call of auto_prepare
Start(datasets, arguments) ==
    /\ src \in datasets
    /\ args \in arguments
    /\ Fittable(src, args)
    /\ pc = "read_sample"
    /\ err = "none"
    /\ df_sample = <<>>
    /\ numeric_cols = <<>>
    /\ categorical_cols = <<>>
    /\ imputer = <<>>
    /\ encoder = <<>>
    /\ encoded_feature_names = <<>>
    /\ candidates = <<>>
    /\ col_idx = 0
    /\ scores = <<>>
    /\ selected_features = <<>>
    /\ writer = NoWriter
    /\ chunk_count = 0
    /\ cursor = 0
    /\ df_chunk = <<>>
    /\ X_chunk_num = EmptyFrame(0)
    /\ X_chunk_cat_encoded = EmptyFrame(0)
    /\ mi_log = <<>>
    /\ y_encoded = <<>>
    /\ output = PriorOutput
    /\ is_first_chunk = TRUE
    /\ results = <<>>
    /\ folder = NoFolder
    /\ all_paths = <<>>
    /\ returned = NA

Init == Start(Datasets, Arguments)

InitCat == Start(CatDatasets, CatArguments)

\* variant: the writer is obtained at the start of the function
ReadSampleOpensWriter ==
    /\ pc = "read_sample"
    /\ df_sample' = HeadRows(src.rows, args.sampling_limit)
    /\ writer' = [writer EXCEPT !.opened = @ + 1]
    /\ pc' = "check_target"
    /\ UNCHANGED <<folder, all_paths, returned,
                   src, args, err, numeric_cols, categorical_cols, imputer,
                   encoder, encoded_feature_names, candidates, col_idx, scores,
                   selected_features, chunk_count, cursor, df_chunk,
                   X_chunk_num, X_chunk_cat_encoded,
                   mi_log, y_encoded, output, is_first_chunk, results>>

\* line 35-38: df_sample = input_dataset.get_dataframe(sampling='head', limit=...)
ReadSample ==
    /\ pc = "read_sample"
    /\ df_sample' = HeadRows(src.rows, args.sampling_limit)
    /\ pc' = "check_target"
    /\ UNCHANGED <<folder, all_paths, returned,
                   src, args, err, numeric_cols, categorical_cols, imputer,
                   encoder, encoded_feature_names, candidates, col_idx, scores,
                   selected_features, writer, chunk_count, cursor, df_chunk,
                   X_chunk_num, X_chunk_cat_encoded,
                   mi_log, y_encoded, output, is_first_chunk, results>>

\* variant: the target is not looked for
CheckTargetSkipped ==
    /\ pc = "check_target"
    /\ pc' = "classify"
    /\ UNCHANGED <<folder, all_paths, returned,
                   src, args, err, df_sample, numeric_cols, categorical_cols,
                   imputer, encoder, encoded_feature_names, candidates, col_idx,
                   scores, selected_features, writer, chunk_count, cursor,
                   df_chunk, X_chunk_num, X_chunk_cat_encoded,
                   mi_log, y_encoded, output, is_first_chunk, results>>

\* line 40-41: the target must be a column of the sample (the ValueError of
\* line 41 is the specification's SchemaError)
CheckTarget ==
    /\ pc = "check_target"
    /\ IF args.target_column \notin Range(src.columns)
       THEN /\ err' = "SchemaError"
            /\ pc' = "raised"
       ELSE /\ err' = err
            /\ pc' = "classify"
    /\ UNCHANGED <<folder, all_paths, returned,
                   src, args, df_sample, numeric_cols, categorical_cols,
                   imputer, encoder, encoded_feature_names, candidates, col_idx,
                   scores, selected_features, writer, chunk_count, cursor,
                   df_chunk, X_chunk_num, X_chunk_cat_encoded,
                   mi_log, y_encoded, output, is_first_chunk, results>>

\* line 44-49: the feature columns by dtype
Classify ==
    /\ pc = "classify"
    /\ LET X_columns == DropColumn(src.columns, args.target_column)
       IN  /\ numeric_cols' = SelectDtypes(X_columns, {"number"})
           /\ categorical_cols' = SelectDtypes(X_columns, {"object", "category"})
    /\ pc' = "fit_imputer"
    /\ UNCHANGED <<folder, all_paths, returned,
                   src, args, err, df_sample, imputer, encoder,
                   encoded_feature_names, candidates, col_idx, scores,
                   selected_features, writer, chunk_count, cursor, df_chunk,
                   X_chunk_num, X_chunk_cat_encoded,
                   mi_log, y_encoded, output, is_first_chunk, results>>

\* line 55-64: the imputer is fitted on the sample's numeric columns
FitImputer ==
    /\ pc = "fit_imputer"
    /\ IF numeric_cols # <<>>
       THEN imputer' = << [strategy    |-> args.impute_strategy,
                           statistics_ |-> ImputerFit(args.impute_strategy,
                                                      df_sample, numeric_cols)] >>
       ELSE imputer' = imputer
    /\ pc' = "fit_encoder"
    /\ UNCHANGED <<folder, all_paths, returned,
                   src, args, err, df_sample, numeric_cols, categorical_cols,
                   encoder, encoded_feature_names, candidates, col_idx, scores,
                   selected_features, writer, chunk_count, cursor, df_chunk,
                   X_chunk_num, X_chunk_cat_encoded,
                   mi_log, y_encoded, output, is_first_chunk, results>>

\* line 67-98: the encoder is fitted on the sample's categorical columns, with
\* nulls filled by "Missing"; the strategy is looked at only when there is a
\* categorical column (the ValueError of line 98 is the specification's
\* ConfigError)
FitEncoder ==
    /\ pc = "fit_encoder"
    /\ IF categorical_cols # <<>>
       THEN IF args.encoding_strategy = "label"
            THEN /\ encoder' = << [kind           |-> "ordinal",
                                   handle_unknown |-> "use_encoded_value",
                                   unknown_value  |-> -1,
                                   categories_    |-> EncoderFit(df_sample,
                                                                 categorical_cols)] >>
                 /\ encoded_feature_names' = categorical_cols
                 /\ err' = err
                 /\ pc' = "prepare_selection"
            ELSE IF args.encoding_strategy = "onehot"
            THEN /\ encoder' = << [kind           |-> "onehot",
                                   handle_unknown |-> "ignore",
                                   unknown_value  |-> 0,
                                   categories_    |-> EncoderFit(df_sample,
                                                                 categorical_cols)] >>
                 /\ encoded_feature_names' =
                        GetFeatureNamesOut(EncoderFit(df_sample, categorical_cols),
                                           categorical_cols)
                 /\ err' = err
                 /\ pc' = "prepare_selection"
            ELSE /\ err' = "ConfigError"
                 /\ pc' = "raised"
                 /\ UNCHANGED <<encoder, encoded_feature_names>>
       ELSE /\ pc' = "prepare_selection"
            /\ UNCHANGED <<err, encoder, encoded_feature_names>>
    /\ UNCHANGED <<folder, all_paths, returned,
                   src, args, df_sample, numeric_cols, categorical_cols,
                   imputer, candidates, col_idx, scores, selected_features,
                   writer, chunk_count, cursor, df_chunk, X_chunk_num,
                   X_chunk_cat_encoded,
                   mi_log, y_encoded, output, is_first_chunk, results>>

\* variant: the rows are not filtered
ValidRowsUnfiltered(rows, target) == rows

\* line 107-109: the rows of the sample whose target is not missing
ValidRows(rows, target) == SelectSeq(rows, LAMBDA r : r[target] # NA)

\* variant: the codes follow the order of first appearance
LabelEncoderFirstSeen(y) ==
    [i \in 1..Len(y) |->
        Cardinality({y[k] : k \in 1..(CHOOSE m \in 1..i : y[m] = y[i]
                                         /\ \A n \in 1..(m - 1) : y[n] # y[i])})
            - 1]

\* LabelEncoder().fit_transform(y): classes_ is the sorted distinct values
\* (np.unique), the code of a value is its position in classes_
LabelEncoderFitTransform(y) ==
    LET classes_ == SelectSeq(StrOrder, LAMBDA v : v \in Range(y))
    IN  [i \in 1..Len(y) |-> IndexOf(classes_, y[i]) - 1]

\* line 114-119: the target of the valid rows, label-encoded when its dtype
\* is not numeric
YEncoded(rows, target) ==
    LET y_eval == [i \in 1..Len(rows) |->
                      IF rows[i][target] = NA THEN NA ELSE rows[i][target][1]]
    IN  IF Dtype(target) # "number"
        THEN LabelEncoderFitTransform(y_eval)
        ELSE y_eval

\* line 101-121: X_eval is the transformed sample restricted to the rows with
\* a target; DataFrame.empty holds when it has no row or no column (the
\* ValueError of line 112 is the specification's DataError)
PrepareSelection ==
    /\ pc = "prepare_selection"
    /\ LET X_processed_columns == numeric_cols \o encoded_feature_names
           X_eval_rows == ValidRows(df_sample, args.target_column)
       IN  IF X_eval_rows = <<>> \/ X_processed_columns = <<>>
           THEN /\ err' = "DataError"
                /\ pc' = "raised"
                /\ UNCHANGED <<candidates, col_idx, y_encoded>>
           ELSE /\ candidates' = X_processed_columns
                /\ col_idx' = 1
                /\ y_encoded' = YEncoded(X_eval_rows, args.target_column)
                /\ err' = err
                /\ pc' = "select"
    /\ selected_features' = <<>>
    /\ UNCHANGED <<folder, all_paths, returned,
                   src, args, df_sample, numeric_cols, categorical_cols,
                   imputer, encoder, encoded_feature_names, scores, writer,
                   chunk_count, cursor, df_chunk, X_chunk_num,
                   X_chunk_cat_encoded,
                   mi_log, output, is_first_chunk, results>>

\* variant: strict comparison
R2PassesStrict(r2, r2_threshold) == r2 > r2_threshold

\* line 134: the R2 branch
R2Passes(r2, r2_threshold) == r2 >= r2_threshold

\* variant: the comparison is the wrong way round
MiPassesInverted(mi, mi_threshold) == mi <= mi_threshold

\* line 139: the mutual-information branch
MiPasses(mi, mi_threshold) == mi >= mi_threshold

\* line 132-140: keep, for a feature with the scores r2 and mi
Keep(r2, mi, r2_threshold, mi_threshold) ==
    IF R2Passes(r2, r2_threshold) THEN TRUE ELSE MiPasses(mi, mi_threshold)

\* variant: mutual_info_regression is called before the R2 branch
ScoreFeatureEagerMi ==
    /\ pc = "select"
    /\ col_idx <= Len(candidates)
    /\ LET col == candidates[col_idx]
       IN  \E r2 \in R2Scores : \E mi \in MiScores :
              /\ scores' = scores @@ (col :> [r2 |-> r2, mi |-> Some(mi)])
              /\ mi_log' = Append(mi_log, col)
              /\ selected_features' =
                     IF R2Passes(r2, args.r2_threshold)
                            \/ mi >= args.mi_threshold
                     THEN Append(selected_features, col)
                     ELSE selected_features
    /\ col_idx' = col_idx + 1
    /\ UNCHANGED <<folder, all_paths, returned,
                   src, args, pc, err, df_sample, numeric_cols,
                   categorical_cols, imputer, encoder, encoded_feature_names,
                   candidates, writer, chunk_count, cursor, df_chunk,
                   X_chunk_num, X_chunk_cat_encoded, y_encoded,
                   output, is_first_chunk, results>>

\* line 123-143: one iteration of the selection loop. r2 is the result of
\* r2_score; mutual_info_regression is called only in the else branch.
ScoreFeature ==
    /\ pc = "select"
    /\ col_idx <= Len(candidates)
    /\ LET col == candidates[col_idx]
       IN  \E r2 \in R2Scores :
              IF R2Passes(r2, args.r2_threshold)
              THEN /\ scores' = scores @@ (col :> [r2 |-> r2, mi |-> NA])
                   /\ selected_features' = Append(selected_features, col)
                   /\ mi_log' = mi_log
              ELSE \E mi \in MiScores :
                      /\ scores' = scores @@ (col :> [r2 |-> r2, mi |-> Some(mi)])
                      /\ mi_log' = Append(mi_log, col)
                      /\ selected_features' =
                             IF MiPasses(mi, args.mi_threshold)
                             THEN Append(selected_features, col)
                             ELSE selected_features
    /\ col_idx' = col_idx + 1
    /\ UNCHANGED <<folder, all_paths, returned,
                   src, args, pc, err, df_sample, numeric_cols,
                   categorical_cols, imputer, encoder, encoded_feature_names,
                   candidates, writer, chunk_count, cursor, df_chunk,
                   X_chunk_num, X_chunk_cat_encoded, y_encoded,
                   output, is_first_chunk, results>>

\* variant: the transform phase starts also with no feature selected
EndSelectionContinues ==
    /\ pc = "select"
    /\ col_idx > Len(candidates)
    /\ pc' = "get_writer"
    /\ df_sample' = <<>>
    /\ UNCHANGED <<folder, all_paths, returned,
                   src, args, err, numeric_cols, categorical_cols, imputer,
                   encoder, encoded_feature_names, candidates, col_idx, scores,
                   selected_features, writer, chunk_count, cursor, df_chunk,
                   X_chunk_num, X_chunk_cat_encoded,
                   mi_log, y_encoded, output, is_first_chunk, results>>

\* line 145-153: after the loop; with no feature selected the function prints
\* a warning and returns, otherwise the sample is released
EndSelection ==
    /\ pc = "select"
    /\ col_idx > Len(candidates)
    /\ IF selected_features = <<>>
       THEN /\ pc' = "returned"
            /\ df_sample' = df_sample
       ELSE /\ pc' = "get_writer"
            /\ df_sample' = <<>>
    /\ UNCHANGED <<folder, all_paths, returned,
                   src, args, err, numeric_cols, categorical_cols, imputer,
                   encoder, encoded_feature_names, candidates, col_idx, scores,
                   selected_features, writer, chunk_count, cursor, df_chunk,
                   X_chunk_num, X_chunk_cat_encoded,
                   mi_log, y_encoded, output, is_first_chunk, results>>

\* line 160-165: with output_dataset.get_writer() as writer
GetWriter ==
    /\ pc = "get_writer"
    /\ writer' = [writer EXCEPT !.opened = @ + 1]
    /\ chunk_count' = 0
    /\ pc' = "iterate"
    /\ UNCHANGED <<folder, all_paths, returned,
                   src, args, err, df_sample, numeric_cols, categorical_cols,
                   imputer, encoder, encoded_feature_names, candidates, col_idx,
                   scores, selected_features, cursor, df_chunk,
                   X_chunk_num, X_chunk_cat_encoded,
                   mi_log, y_encoded, output, is_first_chunk, results>>

\* line 166: the next chunk of iter_dataframes(chunksize=chunk_size)
NextChunk == SubSeq(src.rows, cursor + 1,
                    Min(cursor + args.chunk_size, Len(src.rows)))

\* the statistics of the chunk itself, 0 for a column without a value
OwnStatistics(chunk) ==
    [c \in Range(numeric_cols) |->
        IF Observed(chunk, c) = <<>> THEN Frac(0, 1)
        ELSE ImputerFit(args.impute_strategy, chunk, <<c>>)[c]]

\* variant: the chunk is filled with its own statistics (fit_transform)
ChunkNumOwnStatistics(chunk) ==
    IF numeric_cols # <<>> /\ imputer # <<>>
    THEN Frame(ImputedMatrix(OwnStatistics(chunk), numeric_cols, chunk),
               numeric_cols)
    ELSE EmptyFrame(Len(chunk))

\* line 175-178
ChunkNum(chunk) ==
    IF numeric_cols # <<>> /\ imputer # <<>>
    THEN Frame(ImputedMatrix(imputer[1].statistics_, numeric_cols, chunk),
               numeric_cols)
    ELSE EmptyFrame(Len(chunk))

\* line 181-193
ChunkCatEncoded(chunk) ==
    IF categorical_cols # <<>> /\ encoder # <<>>
    THEN IF args.encoding_strategy = "label"
         THEN Frame(OrdinalMatrix(encoder[1], categorical_cols, chunk),
                    categorical_cols)
         ELSE IF args.encoding_strategy = "onehot"
         THEN Frame(OneHotMatrix(encoder[1], categorical_cols, chunk),
                    encoded_feature_names)
         ELSE EmptyFrame(Len(chunk))
    ELSE EmptyFrame(Len(chunk))

\* variant: rows without a target are left out of the output
ChunkFinalValidOnly(chunk) ==
    LET valid == SelectSeq(chunk, LAMBDA r : r[args.target_column] # NA)
    IN  SetColumn(SelectColumns(Concat(ChunkNum(valid), ChunkCatEncoded(valid)),
                                selected_features),
                  args.target_column,
                  [i \in 1..Len(valid) |-> valid[i][args.target_column]])

\* variant: a missing target is filled in the output
ChunkFinalFillsTarget(chunk) ==
    SetColumn(SelectColumns(Concat(ChunkNum(chunk), ChunkCatEncoded(chunk)),
                            selected_features),
              args.target_column,
              [i \in 1..Len(chunk) |->
                  IF chunk[i][args.target_column] = NA THEN Some(0)
                  ELSE chunk[i][args.target_column]])

\* line 171, 196-202: the selected features of the transformed chunk, then
\* the chunk's own target column
ChunkFinal(chunk) ==
    SetColumn(SelectColumns(Concat(ChunkNum(chunk), ChunkCatEncoded(chunk)),
                            selected_features),
              args.target_column,
              [i \in 1..Len(chunk) |-> chunk[i][args.target_column]])

\* the statistics of a fit on the chunk, where the chunk has a value
RefitStatistics(chunk) ==
    [c \in Range(numeric_cols) |->
        IF Observed(chunk, c) = <<>> THEN imputer[1].statistics_[c]
        ELSE ImputerFit(args.impute_strategy, chunk, <<c>>)[c]]

\* variant: the imputer is fitted again on every chunk (fit_transform)
ProcessChunkRefits ==
    /\ pc = "iterate"
    /\ cursor < Len(src.rows)
    /\ chunk_count' = chunk_count + 1
    /\ cursor' = cursor + Len(NextChunk)
    /\ df_chunk' = NextChunk
    /\ imputer' = IF imputer = <<>> THEN imputer
                  ELSE << [imputer[1] EXCEPT !.statistics_ = RefitStatistics(NextChunk)] >>
    /\ X_chunk_num' = ChunkNum(NextChunk)
    /\ X_chunk_cat_encoded' = ChunkCatEncoded(NextChunk)
    /\ writer' = [writer EXCEPT !.written = Append(@, ChunkFinal(NextChunk))]
    /\ UNCHANGED <<folder, all_paths, returned,
                   src, args, pc, err, df_sample, numeric_cols,
                   categorical_cols, encoder, encoded_feature_names,
                   candidates, col_idx, scores, selected_features,
                   mi_log, y_encoded, output, is_first_chunk, results>>

\* variant: the newest chunk is put in front of the earlier ones
ProcessChunkPrepends ==
    /\ pc = "iterate"
    /\ cursor < Len(src.rows)
    /\ chunk_count' = chunk_count + 1
    /\ cursor' = cursor + Len(NextChunk)
    /\ df_chunk' = NextChunk
    /\ X_chunk_num' = ChunkNum(NextChunk)
    /\ X_chunk_cat_encoded' = ChunkCatEncoded(NextChunk)
    /\ writer' = [writer EXCEPT !.written = <<ChunkFinal(NextChunk)>> \o @]
    /\ UNCHANGED <<folder, all_paths, returned,
                   src, args, pc, err, df_sample, numeric_cols,
                   categorical_cols, imputer, encoder, encoded_feature_names,
                   candidates, col_idx, scores, selected_features,
                   mi_log, y_encoded, output, is_first_chunk, results>>

\* line 166-205: one iteration of the chunk loop
ProcessChunk ==
    /\ pc = "iterate"
    /\ cursor < Len(src.rows)
    /\ chunk_count' = chunk_count + 1
    /\ cursor' = cursor + Len(NextChunk)
    /\ df_chunk' = NextChunk
    /\ X_chunk_num' = ChunkNum(NextChunk)
    /\ X_chunk_cat_encoded' = ChunkCatEncoded(NextChunk)
    /\ writer' = [writer EXCEPT !.written = Append(@, ChunkFinal(NextChunk))]
    /\ UNCHANGED <<folder, all_paths, returned,
                   src, args, pc, err, df_sample, numeric_cols,
                   categorical_cols, imputer, encoder, encoded_feature_names,
                   candidates, col_idx, scores, selected_features,
                   mi_log, y_encoded, output, is_first_chunk, results>>

\* line 163, 207: the source is exhausted, the with block closes the writer
ExitWriter ==
    /\ pc = "iterate"
    /\ cursor >= Len(src.rows)
    /\ writer' = [writer EXCEPT !.closed = @ + 1]
    /\ pc' = "returned"
    /\ UNCHANGED <<folder, all_paths, returned,
                   src, args, err, df_sample, numeric_cols, categorical_cols,
                   imputer, encoder, encoded_feature_names, candidates, col_idx,
                   scores, selected_features, chunk_count, cursor, df_chunk,
                   X_chunk_num, X_chunk_cat_encoded,
                   mi_log, y_encoded, output, is_first_chunk, results>>

Next ==
    \/ ReadSample
    \/ CheckTarget
    \/ Classify
    \/ FitImputer
    \/ FitEncoder
    \/ PrepareSelection
    \/ ScoreFeature
    \/ EndSelection
    \/ GetWriter
    \/ ProcessChunk
    \/ ExitWriter

Spec == Init /\ [][Next]_vars

SpecCat == InitCat /\ [][Next]_vars

InitTypes == Start(TypeDatasets, IOArguments)

SpecTypes == InitTypes /\ [][Next]_vars

InitTarget == Start(TextTargetDatasets, TextTargetArguments)

SpecTarget == InitTarget /\ [][Next]_vars

InitNames == Start(NameDatasets, NameArguments)

SpecNames == InitNames /\ [][Next]_vars

InitSel == Start(SelDatasets, SelArguments)

SpecSel == InitSel /\ [][Next]_vars

----------------------------------------------------------------------------
(* Failing chunks *)

\* variant: the failing chunk is skipped and the loop goes on
ChunkFailsContinues ==
    /\ pc = "iterate"
    /\ cursor < Len(src.rows)
    /\ chunk_count' = chunk_count + 1
    /\ cursor' = cursor + Len(NextChunk)
    /\ df_chunk' = NextChunk
    /\ err' = "ChunkProcessingError"
    /\ UNCHANGED <<folder, all_paths, returned,
                   src, args, pc, df_sample, numeric_cols, categorical_cols,
                   imputer, encoder, encoded_feature_names, candidates, col_idx,
                   scores, selected_features, writer, X_chunk_num,
                   X_chunk_cat_encoded, mi_log, y_encoded, output, is_first_chunk, results>>

\* line 163-205: the iteration raises (the chunk read, a transform step or
\* write_dataframe); the with block closes the writer and the exception
\* leaves auto_prepare. This is the specification's ChunkProcessingError.
ChunkFails ==
    /\ pc = "iterate"
    /\ cursor < Len(src.rows)
    /\ chunk_count' = chunk_count + 1
    /\ cursor' = cursor + Len(NextChunk)
    /\ df_chunk' = NextChunk
    /\ writer' = [writer EXCEPT !.closed = @ + 1]
    /\ err' = "ChunkProcessingError"
    /\ pc' = "raised"
    /\ UNCHANGED <<folder, all_paths, returned,
                   src, args, df_sample, numeric_cols, categorical_cols,
                   imputer, encoder, encoded_feature_names, candidates, col_idx,
                   scores, selected_features, X_chunk_num, X_chunk_cat_encoded,
                   mi_log, y_encoded, output, is_first_chunk, results>>

----------------------------------------------------------------------------
(* fast_copy (src/dataiku_tools.py). The processing functions are the       *)
(* caller's: the chain returns the chunk, returns None or raises.           *)

\* a chunk as a DataFrame
ToFrame(rows, cols) ==
    Frame([i \in 1..Len(rows) |-> [j \in 1..Len(cols) |-> rows[i][cols[j]]]], cols)

IODatasets == DatasetsOver(<<"n1", "y">>, MaxIORows)

\* a source without rows: iter_dataframes yields no chunk
EmptyDataset == [columns |-> <<"n1", "y">>, rows |-> <<>>]

\* line 16-22: the state at the try statement
FastCopyStart ==
    /\ src \in IODatasets \cup {EmptyDataset}
    /\ args \in {a \in IOArguments : a.sampling_limit = 1}
    /\ pc = "fc_iterate"
    /\ err = "none"
    /\ df_sample = <<>>
    /\ numeric_cols = <<>>
    /\ categorical_cols = <<>>
    /\ imputer = <<>>
    /\ encoder = <<>>
    /\ encoded_feature_names = <<>>
    /\ candidates = <<>>
    /\ col_idx = 0
    /\ scores = <<>>
    /\ selected_features = <<>>
    /\ writer = NoWriter
    /\ chunk_count = 0
    /\ cursor = 0
    /\ df_chunk = <<>>
    /\ X_chunk_num = EmptyFrame(0)
    /\ X_chunk_cat_encoded = EmptyFrame(0)
    /\ mi_log = <<>>
    /\ y_encoded = <<>>
    /\ output = PriorOutput
    /\ is_first_chunk = TRUE
    /\ results = <<>>
    /\ folder = NoFolder
    /\ all_paths = <<>>
    /\ returned = NA

\* line 24-30: the chunk read or a processing function raises
FcChainRaises ==
    /\ pc = "fc_iterate"
    /\ cursor < Len(src.rows)
    /\ chunk_count' = chunk_count + 1
    /\ cursor' = cursor + Len(NextChunk)
    /\ df_chunk' = NextChunk
    /\ err' = "ProcessingError"
    /\ pc' = "fc_finally"
    /\ UNCHANGED <<folder, all_paths, returned,
                   src, args, df_sample, numeric_cols, categorical_cols,
                   imputer, encoder, encoded_feature_names, candidates, col_idx,
                   scores, selected_features, writer, X_chunk_num,
                   X_chunk_cat_encoded, mi_log, y_encoded, output, is_first_chunk, results>>

\* variant: a skipped chunk uses up the first-chunk flag
FcSkipCountsAsFirst ==
    /\ pc = "fc_iterate"
    /\ cursor < Len(src.rows)
    /\ chunk_count' = chunk_count + 1
    /\ cursor' = cursor + Len(NextChunk)
    /\ df_chunk' = NextChunk
    /\ results' = Append(results, NA)
    /\ is_first_chunk' = FALSE
    /\ UNCHANGED <<folder, all_paths, returned,
                   src, args, pc, err, df_sample, numeric_cols,
                   categorical_cols, imputer, encoder, encoded_feature_names,
                   candidates, col_idx, scores, selected_features, writer,
                   X_chunk_num, X_chunk_cat_encoded, mi_log, y_encoded, output>>

\* line 24-34: the chain returns None, the chunk is skipped
FcSkip ==
    /\ pc = "fc_iterate"
    /\ cursor < Len(src.rows)
    /\ chunk_count' = chunk_count + 1
    /\ cursor' = cursor + Len(NextChunk)
    /\ df_chunk' = NextChunk
    /\ results' = Append(results, NA)
    /\ UNCHANGED <<folder, all_paths, returned,
                   src, args, pc, err, df_sample, numeric_cols,
                   categorical_cols, imputer, encoder, encoded_feature_names,
                   candidates, col_idx, scores, selected_features, writer,
                   X_chunk_num, X_chunk_cat_encoded, mi_log, y_encoded, output,
                   is_first_chunk>>

\* line 36-44: at the first chunk the output is cleared, its schema written
\* and the writer obtained
OutputAtWrite(current_df) ==
    IF is_first_chunk
    THEN [prior       |-> FALSE,
          clear_calls |-> output.clear_calls + 1,
          schemas     |-> Append(output.schemas, current_df.columns)]
    ELSE output

WriterAtWrite ==
    IF is_first_chunk THEN [writer EXCEPT !.opened = @ + 1] ELSE writer

\* line 24-49: the chain returns a DataFrame, which is written
FcWrite ==
    /\ pc = "fc_iterate"
    /\ cursor < Len(src.rows)
    /\ chunk_count' = chunk_count + 1
    /\ cursor' = cursor + Len(NextChunk)
    /\ df_chunk' = NextChunk
    /\ LET current_df == ToFrame(NextChunk, src.columns)
       IN  /\ results' = Append(results, Some(current_df))
           /\ output' = OutputAtWrite(current_df)
           /\ writer' = [WriterAtWrite EXCEPT !.written = Append(@, current_df)]
    /\ is_first_chunk' = FALSE
    /\ UNCHANGED <<folder, all_paths, returned,
                   src, args, pc, err, df_sample, numeric_cols,
                   categorical_cols, imputer, encoder, encoded_feature_names,
                   candidates, col_idx, scores, selected_features, X_chunk_num,
                   X_chunk_cat_encoded, mi_log, y_encoded>>

\* line 24-49: the chain returns a DataFrame and write_dataframe raises
FcWriteRaises ==
    /\ pc = "fc_iterate"
    /\ cursor < Len(src.rows)
    /\ chunk_count' = chunk_count + 1
    /\ cursor' = cursor + Len(NextChunk)
    /\ df_chunk' = NextChunk
    /\ LET current_df == ToFrame(NextChunk, src.columns)
       IN  /\ results' = Append(results, Some(current_df))
           /\ output' = OutputAtWrite(current_df)
    /\ writer' = WriterAtWrite
    /\ is_first_chunk' = FALSE
    /\ err' = "WriteError"
    /\ pc' = "fc_finally"
    /\ UNCHANGED <<folder, all_paths, returned,
                   src, args, df_sample, numeric_cols, categorical_cols,
                   imputer, encoder, encoded_feature_names, candidates, col_idx,
                   scores, selected_features, X_chunk_num, X_chunk_cat_encoded,
                   mi_log, y_encoded>>

\* line 24: the source is exhausted
FcExhausted ==
    /\ pc = "fc_iterate"
    /\ cursor >= Len(src.rows)
    /\ pc' = "fc_finally"
    /\ UNCHANGED <<folder, all_paths, returned,
                   src, args, err, df_sample, numeric_cols, categorical_cols,
                   imputer, encoder, encoded_feature_names, candidates, col_idx,
                   scores, selected_features, writer, chunk_count, cursor,
                   df_chunk, X_chunk_num, X_chunk_cat_encoded, mi_log, y_encoded, output,
                   is_first_chunk, results>>

\* variant: the writer is closed on the normal path only
FcFinallyOnSuccessOnly ==
    /\ pc = "fc_finally"
    /\ writer' = IF writer.opened > 0 /\ err = "none"
                 THEN [writer EXCEPT !.closed = @ + 1]
                 ELSE writer
    /\ pc' = IF err = "none" THEN "fc_returned" ELSE "fc_raised"
    /\ UNCHANGED <<folder, all_paths, returned,
                   src, args, err, df_sample, numeric_cols, categorical_cols,
                   imputer, encoder, encoded_feature_names, candidates, col_idx,
                   scores, selected_features, chunk_count, cursor, df_chunk,
                   X_chunk_num, X_chunk_cat_encoded, mi_log, y_encoded, output,
                   is_first_chunk, results>>

\* line 51-54: the writer, if there is one, is closed; a pending exception
\* then leaves fast_copy
FcFinally ==
    /\ pc = "fc_finally"
    /\ writer' = IF writer.opened > 0 THEN [writer EXCEPT !.closed = @ + 1]
                 ELSE writer
    /\ pc' = IF err = "none" THEN "fc_returned" ELSE "fc_raised"
    /\ UNCHANGED <<folder, all_paths, returned,
                   src, args, err, df_sample, numeric_cols, categorical_cols,
                   imputer, encoder, encoded_feature_names, candidates, col_idx,
                   scores, selected_features, chunk_count, cursor, df_chunk,
                   X_chunk_num, X_chunk_cat_encoded, mi_log, y_encoded, output,
                   is_first_chunk, results>>

\* one call of auto_prepare or one call of fast_copy
InitIO ==
    \/ Start(IODatasets, IOArguments)
    \/ FastCopyStart

NextIO ==
    \/ Next
    \/ ChunkFails
    \/ FcChainRaises
    \/ FcSkip
    \/ FcWrite
    \/ FcWriteRaises
    \/ FcExhausted
    \/ FcFinally

SpecIO == InitIO /\ [][NextIO]_vars

----------------------------------------------------------------------------
(* oswrapper: list_files, copy_file, delete_file, move_file *)

\* files of the folder in the runs of oswrapper
MaxFiles == 2

\* characters of the path argument of list_files
MaxPatternLen == 3

\* the characters of a file path, and those of a prefix or pattern
PathChars == {"a", "."}

PatternChars == PathChars \cup {"*", "^", "$"}

\* file paths, as sequences of characters
Paths == { <<"a">>, <<".">>, <<"a", "a">>, <<"a", ".">>, <<".", "a">> }

SeqsUpTo(S, n) == UNION {[1..k -> S] : k \in 0..n}

\* a managed folder: its files in the order of list_paths_in_partition, no
\* path twice; the data of a file is tagged with the path it was stored under
Folders ==
    {[files |-> [i \in 1..Len(ps) |-> [path |-> ps[i], data |-> ps[i]]],
      calls |-> <<>>] :
        ps \in {q \in SeqsUpTo(Paths, MaxFiles) :
                   \A i, j \in 1..Len(q) : q[i] = q[j] => i = j}}

\* path is None, the empty string, a prefix or a pattern
ListFilesArguments ==
    [path     : {NA} \cup {Some(q) : q \in SeqsUpTo(PatternChars, MaxPatternLen)},
     is_regex : BOOLEAN]

MoveFileArguments == [src_path : Paths, dst_path : Paths]

\* auto_prepare and fast_copy take no part in a call of oswrapper
datasetVars ==
    <<src, df_sample, numeric_cols, categorical_cols, imputer, encoder,
      encoded_feature_names, candidates, col_idx, scores, selected_features,
      writer, chunk_count, cursor, df_chunk, X_chunk_num, X_chunk_cat_encoded,
      mi_log, y_encoded, output, is_first_chunk, results>>

DatasetsIdle ==
    /\ src = EmptyDataset
    /\ df_sample = <<>>
    /\ numeric_cols = <<>>
    /\ categorical_cols = <<>>
    /\ imputer = <<>>
    /\ encoder = <<>>
    /\ encoded_feature_names = <<>>
    /\ candidates = <<>>
    /\ col_idx = 0
    /\ scores = <<>>
    /\ selected_features = <<>>
    /\ writer = NoWriter
    /\ chunk_count = 0
    /\ cursor = 0
    /\ df_chunk = <<>>
    /\ X_chunk_num = EmptyFrame(0)
    /\ X_chunk_cat_encoded = EmptyFrame(0)
    /\ mi_log = <<>>
    /\ y_encoded = <<>>
    /\ output = PriorOutput
    /\ is_first_chunk = TRUE
    /\ results = <<>>

\* line 10: the state at a call of list_files
ListFilesStart ==
    /\ DatasetsIdle
    /\ folder \in Folders
    /\ args \in ListFilesArguments
    /\ pc = "ls_list"
    /\ err = "none"
    /\ all_paths = <<>>
    /\ returned = NA

\* line 25-27
ListPaths ==
    /\ pc = "ls_list"
    /\ all_paths' = [i \in 1..Len(folder.files) |-> folder.files[i].path]
    /\ folder' = [folder EXCEPT !.calls = Append(@, "list_paths_in_partition")]
    /\ pc' = "ls_select"
    /\ UNCHANGED <<args, err, returned, datasetVars>>

\* line 28-30: list_paths_in_partition raises, the error is raised again
ListPathsRaises ==
    /\ pc = "ls_list"
    /\ folder' = [folder EXCEPT !.calls = Append(@, "list_paths_in_partition")]
    /\ err' = "ListError"
    /\ pc' = "ls_raised"
    /\ UNCHANGED <<args, all_paths, returned, datasetVars>>

\* line 32: not path
NotPath(path) == path = NA \/ path[1] = <<>>

\* re.compile: "*" repeats the character or "." right before it; with
\* nothing to repeat, or after another "*", re.error is raised
ValidPattern(p) ==
    \A i \in 1..Len(p) : p[i] = "*" => (i > 1 /\ p[i - 1] \in PathChars)

\* "." stands for any character (paths hold no newline)
CharMatches(t, c) == t = "." \/ t = c

\* the positions of text where a match of the pattern p that starts after
\* position i can end
RECURSIVE Ends(_, _, _)
Ends(p, text, i) ==
    IF p = <<>> THEN {i}
    ELSE IF Len(p) >= 2 /\ p[2] = "*"
    THEN UNION {Ends(SubSeq(p, 3, Len(p)), text, k) :
                   k \in {m \in i..Len(text) :
                             \A n \in (i + 1)..m : CharMatches(p[1], text[n])}}
    ELSE IF p[1] = "^"
    THEN IF i = 0 THEN Ends(Tail(p), text, i) ELSE {}
    ELSE IF p[1] = "$"
    THEN IF i = Len(text) THEN Ends(Tail(p), text, i) ELSE {}
    ELSE IF i < Len(text) /\ CharMatches(p[1], text[i + 1])
    THEN Ends(Tail(p), text, i + 1)
    ELSE {}

\* pattern.search(text): a match that starts anywhere
PatternSearch(p, text) == \E i \in 0..Len(text) : Ends(p, text, i) # {}

\* text.startswith(prefix)
StartsWith(text, prefix) ==
    /\ Len(prefix) <= Len(text)
    /\ SubSeq(text, 1, Len(prefix)) = prefix

\* variant: the prefix test is used for patterns too
ListFilesIgnoresIsRegex(paths, path, is_regex) ==
    IF NotPath(path) THEN paths
    ELSE SelectSeq(paths, LAMBDA q : StartsWith(q, path[1]))

\* line 32-44: the list that list_files returns
ListFiles(paths, path, is_regex) ==
    IF NotPath(path) THEN paths
    ELSE IF is_regex
    THEN SelectSeq(paths, LAMBDA q : PatternSearch(path[1], q))
    ELSE SelectSeq(paths, LAMBDA q : StartsWith(q, path[1]))

\* line 32-44: the selection; an invalid pattern raises re.error
ListFilesSelect ==
    /\ pc = "ls_select"
    /\ IF ~NotPath(args.path) /\ args.is_regex /\ ~ValidPattern(args.path[1])
       THEN /\ err' = "re.error"
            /\ pc' = "ls_raised"
            /\ returned' = returned
       ELSE /\ returned' = Some(ListFiles(all_paths, args.path, args.is_regex))
            /\ pc' = "ls_returned"
            /\ err' = err
    /\ UNCHANGED <<args, folder, all_paths, datasetVars>>

\* line 80: the state at a call of move_file
MoveFileStart ==
    /\ DatasetsIdle
    /\ folder \in Folders
    /\ args \in MoveFileArguments
    /\ pc = "mv_copy"
    /\ err = "none"
    /\ all_paths = <<>>
    /\ returned = NA

Exists(files, path) == \E k \in 1..Len(files) : files[k].path = path

DataOf(files, path) == files[CHOOSE k \in 1..Len(files) : files[k].path = path].data

\* folder.upload_stream(path, stream): the file is replaced or created
Upload(files, path, data) ==
    IF Exists(files, path)
    THEN [k \in 1..Len(files) |->
             IF files[k].path = path THEN [path |-> path, data |-> data]
             ELSE files[k]]
    ELSE Append(files, [path |-> path, data |-> data])

\* folder.delete_path(path)
Delete(files, path) == SelectSeq(files, LAMBDA f : f.path # path)

\* line 91, 55-59: copy_file reads the source and stores it under dst_path
CopyFile ==
    /\ pc = "mv_copy"
    /\ Exists(folder.files, args.src_path)
    /\ folder' = [files |-> Upload(folder.files, args.dst_path,
                                   DataOf(folder.files, args.src_path)),
                  calls |-> folder.calls
                                \o <<"get_download_stream", "upload_stream">>]
    /\ pc' = "mv_delete"
    /\ UNCHANGED <<args, err, all_paths, returned, datasetVars>>

\* what a failing copy leaves: get_download_stream raises (always so for a
\* missing source), or upload_stream raises with the destination as it was
\* or partly written
FailedCopies ==
    {[files |-> folder.files,
      calls |-> Append(folder.calls, "get_download_stream")]}
    \cup
    (IF Exists(folder.files, args.src_path)
     THEN {[files |-> fs,
            calls |-> folder.calls \o <<"get_download_stream", "upload_stream">>] :
              fs \in {folder.files,
                      Upload(folder.files, args.dst_path, <<"partial">>)}}
     ELSE {})

\* variant: copy_file logs the error and returns
CopyFileRaisesSwallowed ==
    /\ pc = "mv_copy"
    /\ folder' \in FailedCopies
    /\ pc' = "mv_delete"
    /\ UNCHANGED <<args, err, all_paths, returned, datasetVars>>

\* line 60-62, 94-98: copy_file raises; move_file logs and raises again
CopyFileRaises ==
    /\ pc = "mv_copy"
    /\ folder' \in FailedCopies
    /\ err' = "CopyError"
    /\ pc' = "mv_raised"
    /\ UNCHANGED <<args, all_paths, returned, datasetVars>>

\* line 92, 72-75: delete_file removes the source
DeleteFile ==
    /\ pc = "mv_delete"
    /\ folder' = [files |-> Delete(folder.files, args.src_path),
                  calls |-> Append(folder.calls, "delete_path")]
    /\ pc' = "mv_returned"
    /\ UNCHANGED <<args, err, all_paths, returned, datasetVars>>

\* line 76-78, 94-98: delete_path raises; move_file logs and raises again
DeleteFileRaises ==
    /\ pc = "mv_delete"
    /\ folder' = [folder EXCEPT !.calls = Append(@, "delete_path")]
    /\ err' = "DeleteError"
    /\ pc' = "mv_raised"
    /\ UNCHANGED <<args, all_paths, returned, datasetVars>>

\* one call of list_files or one call of move_file
InitOS ==
    \/ ListFilesStart
    \/ MoveFileStart

NextOS ==
    \/ ListPaths
    \/ ListPathsRaises
    \/ ListFilesSelect
    \/ CopyFile
    \/ CopyFileRaises
    \/ DeleteFile
    \/ DeleteFileRaises

SpecOS == InitOS /\ [][NextOS]_vars

----------------------------------------------------------------------------
(* Properties *)

Sample == HeadRows(src.rows, args.sampling_limit)

TargetPresent == args.target_column \in Range(src.columns)

Ended == pc \in {"returned", "raised"}

\* the selection loop has gone over every candidate
SelectionPassEnded == candidates # <<>> /\ col_idx > Len(candidates)

OutputUntouched == writer = NoWriter /\ chunk_count = 0 /\ cursor = 0

\* C1: when the selection pass ends with no feature retained, the run ends
\* with a DataError raised to the caller, not with a normal return.
C1_EmptySelectionRaisesDataError ==
    (Ended /\ SelectionPassEnded /\ selected_features = <<>>)
        => (pc = "raised" /\ err = "DataError")

\* line 134-140 as a condition on the recorded scores of one feature
Qualifies(f) ==
    \/ scores[f].r2 >= args.r2_threshold
    \/ /\ scores[f].r2 < args.r2_threshold
       /\ scores[f].mi # NA
       /\ scores[f].mi[1] >= args.mi_threshold

\* C2: an evaluated feature is retained iff R2 >= r2_threshold, or
\* R2 < r2_threshold and MI >= mi_threshold; nothing else is retained, and
\* after the loop every candidate has been evaluated.
C2_RetainedIffQualifies ==
    /\ \A f \in DOMAIN scores : (f \in Range(selected_features)) <=> Qualifies(f)
    /\ Range(selected_features) \subseteq DOMAIN scores
    /\ DOMAIN scores = {candidates[i] : i \in 1..Min(col_idx - 1, Len(candidates))}

C2_Witness ==
    /\ SelectionPassEnded
    /\ \E f \in DOMAIN scores :
          f \in Range(selected_features) /\ scores[f].r2 < args.r2_threshold
    /\ \E f \in DOMAIN scores : f \notin Range(selected_features)

\* the run has ended in one of the fatal conditions of the fitting phase
FitFatal ==
    \/ pc = "raised" /\ err \in {"SchemaError", "ConfigError", "DataError"}
    \/ pc = "returned" /\ selected_features = <<>>

\* C3: a run that ends in a fit-phase fatal condition (target absent, unknown
\* encoding strategy, no valid target row, no feature retained) has opened no
\* writer and written no chunk.
C3_FatalLeavesOutputUntouched == FitFatal => OutputUntouched

C3_Witness ==
    /\ pc = "returned"
    /\ SelectionPassEnded
    /\ selected_features = <<>>
    /\ OutputUntouched

AllTargetMissing ==
    TargetPresent /\ \A i \in 1..Len(Sample) : Sample[i][args.target_column] = NA

\* C4 as stated: when every sample row lacks the target, the DataError is
\* raised before the imputer or the encoder is fitted.
C4_DataErrorBeforeAnyFit ==
    (AllTargetMissing /\ err = "DataError") => (imputer = <<>> /\ encoder = <<>>)

\* C4, amended: when every sample row lacks the target and the two fits have
\* gone through, the run ends with the DataError; it is raised after the
\* fits (the imputer is fitted when there is a numeric column, the encoder
\* when there is a categorical one) and before any feature is scored, any
\* writer is opened and any chunk is read.
C4_DataErrorAfterFits ==
    (/\ AllTargetMissing
     /\ pc \notin {"read_sample", "check_target", "classify", "fit_imputer",
                   "fit_encoder", "prepare_selection"}
     /\ err # "ConfigError")
        => /\ pc = "raised"
           /\ err = "DataError"
           /\ numeric_cols # <<>> => imputer # <<>>
           /\ categorical_cols # <<>> => encoder # <<>>
           /\ DOMAIN scores = {}
           /\ OutputUntouched

C4_Witness ==
    /\ AllTargetMissing
    /\ err = "DataError"
    /\ imputer # <<>>
    /\ encoder # <<>>

\* C5: with the target present, an encoding strategy other than 'label' and
\* 'onehot' makes the run fail with a ConfigError whatever the columns are:
\* the run never gets past the encoder step in any other way.
C5_UnknownStrategyRaisesConfigError ==
    (/\ TargetPresent
     /\ args.encoding_strategy \notin {"label", "onehot"}
     /\ pc \notin {"read_sample", "check_target", "classify", "fit_imputer",
                   "fit_encoder"})
        => (pc = "raised" /\ err = "ConfigError")

\* C6: when the target is not a column of the sample the run fails with a
\* SchemaError, and no column has been classified, no transformer fitted and
\* no chunk read.
C6_TargetAbsentRaisesSchemaError ==
    ~TargetPresent
        => /\ pc \in {"read_sample", "check_target"}
              \/ (pc = "raised" /\ err = "SchemaError")
           /\ numeric_cols = <<>>
           /\ categorical_cols = <<>>
           /\ imputer = <<>>
           /\ encoder = <<>>
           /\ OutputUntouched

C6_Witness == ~TargetPresent /\ pc = "raised" /\ err = "SchemaError"

\* the values of column c in the sample, nulls as "Missing"
SampleValues(c) == {FillNa(Sample[i][c]) : i \in 1..Len(Sample)}

\* C7: with strategy 'label', in every chunk a categorical value that is not
\* among the sample's values of its column is encoded as -1, and a value that
\* is among them gets a code >= 0.
C7_UnknownIsMinusOne ==
    (args.encoding_strategy = "label" /\ chunk_count > 0)
        => \A i \in 1..Len(df_chunk) : \A j \in 1..Len(categorical_cols) :
              LET v    == FillNa(df_chunk[i][categorical_cols[j]])
                  code == X_chunk_cat_encoded.data[i][j]
              IN  /\ v \notin SampleValues(categorical_cols[j]) => code = -1
                  /\ v \in SampleValues(categorical_cols[j]) => code >= 0

C7_Witness ==
    /\ args.encoding_strategy = "label"
    /\ chunk_count >= 2
    /\ \E i \in 1..Len(df_chunk) : \E j \in 1..Len(categorical_cols) :
          /\ FillNa(df_chunk[i][categorical_cols[j]])
                 \notin SampleValues(categorical_cols[j])
          /\ X_chunk_cat_encoded.data[i][j] = -1

\* the one-hot columns fixed by the fit on the sample
SampleFeatureNames ==
    GetFeatureNamesOut(EncoderFit(Sample, categorical_cols), categorical_cols)

\* the positions of column c's indicator group in the one-hot output
Group(c) ==
    LET pairs == OneHotPairs(EncoderFit(Sample, categorical_cols), categorical_cols)
    IN  {k \in 1..Len(pairs) : pairs[k][1] = c}

\* C8: with strategy 'onehot', the encoder's output for every chunk has
\* exactly the columns fixed at fit time, in that order; a value unseen in the
\* sample gives zeros in all indicator columns of its column, a seen value
\* exactly one 1, and the chunk does not raise.
C8_OneHotColumnsFixed ==
    (args.encoding_strategy = "onehot" /\ encoder # <<>>)
        => /\ encoded_feature_names = SampleFeatureNames
           /\ chunk_count > 0 =>
                /\ err = "none"
                /\ X_chunk_cat_encoded.columns = SampleFeatureNames
                /\ \A i \in 1..Len(df_chunk) :
                      /\ Len(X_chunk_cat_encoded.data[i]) = Len(SampleFeatureNames)
                      /\ \A c \in Range(categorical_cols) :
                            LET ones == {k \in Group(c) :
                                            X_chunk_cat_encoded.data[i][k] = 1}
                            IN  IF FillNa(df_chunk[i][c]) \in SampleValues(c)
                                THEN Cardinality(ones) = 1
                                ELSE ones = {}

C8_Witness ==
    /\ args.encoding_strategy = "onehot"
    /\ chunk_count >= 2
    /\ Len(encoded_feature_names) >= 2
    /\ \E i \in 1..Len(df_chunk) : \E c \in Range(categorical_cols) :
          /\ FillNa(df_chunk[i][c]) \notin SampleValues(c)
          /\ \A k \in Group(c) : X_chunk_cat_encoded.data[i][k] = 0

\* the state built by the fitting phase and used by every chunk
pipeline ==
    <<numeric_cols, categorical_cols, imputer, encoder, encoded_feature_names,
      selected_features, args>>

\* the cells of the chunk's numeric frame that were missing in the chunk hold
\* the statistic of the sample
FilledWithSampleStatistic ==
    chunk_count > 0 =>
        \A i \in 1..Len(df_chunk) : \A j \in 1..Len(numeric_cols) :
            df_chunk[i][numeric_cols[j]] = NA
                => X_chunk_num.data[i][j] =
                       ImputerFit(args.impute_strategy, Sample, numeric_cols)[numeric_cols[j]]

\* C9: once the fitting phase has ended, no chunk changes the pipeline state
\* (column lists, imputer statistics, encoder mapping, retained features,
\* target column, chunk size), and a missing numeric cell of a chunk is filled
\* with the sample's statistic, whatever the chunk holds.
C9_PipelineFrozen ==
    /\ [](FilledWithSampleStatistic)
    /\ [][pc = "iterate" => pipeline' = pipeline]_vars

C9_Witness ==
    /\ chunk_count >= 2
    /\ \E i \in 1..Len(df_chunk) : \E j \in 1..Len(numeric_cols) :
          /\ df_chunk[i][numeric_cols[j]] = NA
          /\ \E k \in 1..Len(Sample) : Sample[k][numeric_cols[j]] # NA
          /\ Len(src.rows) > Len(Sample)

\* every step of the fitting phase has been made
FitComplete ==
    /\ TargetPresent
    /\ numeric_cols =
           SelectDtypes(DropColumn(src.columns, args.target_column), {"number"})
    /\ categorical_cols =
           SelectDtypes(DropColumn(src.columns, args.target_column),
                        {"object", "category"})
    /\ numeric_cols # <<>> => imputer # <<>>
    /\ categorical_cols # <<>> => encoder # <<>>
    /\ SelectionPassEnded
    /\ DOMAIN scores = Range(candidates)
    /\ selected_features # <<>>

\* C10: the fitting phase (sample read, classification, imputer fit, encoder
\* fit, feature selection) is complete before the writer is opened and before
\* the first chunk is read, and no step of it is made afterwards.
C10_FitBeforeTransform ==
    /\ []((writer.opened > 0 \/ chunk_count > 0 \/ cursor > 0) => FitComplete)
    /\ [][writer.opened > 0 => pc' \in {"iterate", "returned"}]_vars

C10_Witness == pc = "iterate" /\ chunk_count >= 1 /\ writer.opened = 1

FastCopyRun == pc \in {"fc_iterate", "fc_finally", "fc_returned", "fc_raised"}

RunEnded == pc \in {"returned", "raised", "fc_returned", "fc_raised"}

\* the k-th chunk of the source in source order
Slice(k) ==
    SubSeq(src.rows, (k - 1) * args.chunk_size + 1,
           Min(k * args.chunk_size, Len(src.rows)))

\* the DataFrames among the results of fast_copy's chain, in read order
FramesOf(rs) ==
    LET kept == SelectSeq(rs, LAMBDA r : r # NA)
    IN  [k \in 1..Len(kept) |-> kept[k][1]]

\* C11: the writer receives the chunks in the order in which they were read,
\* one write per chunk read: in auto_prepare the k-th write is the transform
\* of the k-th chunk of the source; in fast_copy the writes are the results
\* that are not None, in read order.
C11_WritesInReadOrder ==
    IF FastCopyRun
    THEN /\ \A k \in 1..Len(results) :
               results[k] # NA => results[k][1] = ToFrame(Slice(k), src.columns)
         /\ Len(results) = chunk_count - (IF err = "ProcessingError" THEN 1 ELSE 0)
         /\ writer.written =
               SubSeq(FramesOf(results), 1,
                      Len(FramesOf(results)) - (IF err = "WriteError" THEN 1 ELSE 0))
    ELSE /\ Len(writer.written) =
               chunk_count - (IF err = "ChunkProcessingError" THEN 1 ELSE 0)
         /\ \A k \in 1..Len(writer.written) :
               writer.written[k] = ChunkFinal(Slice(k))

C11_Witness ==
    /\ pc = "fc_returned"
    /\ Len(results) >= 3
    /\ results[1] # NA
    /\ results[2] = NA
    /\ results[3] # NA
    /\ Len(writer.written) = 2

RECURSIVE TotalRows(_)
TotalRows(chunks) ==
    IF chunks = <<>> THEN 0 ELSE Len(Head(chunks).data) + TotalRows(Tail(chunks))

\* C12: when the transform phase of auto_prepare completes without a failing
\* chunk, as many rows have been written as the source has, rows with a
\* missing target included.
C12_RowCountPreserved ==
    (pc = "returned" /\ writer.opened > 0)
        => TotalRows(writer.written) = Len(src.rows)

C12_Witness ==
    /\ pc = "returned"
    /\ writer.opened > 0
    /\ Len(writer.written) >= 2
    /\ Len(src.rows) % args.chunk_size # 0
    /\ \E i \in 1..Len(src.rows) : src.rows[i][args.target_column] = NA

\* C13: in every chunk written by auto_prepare the target column holds, row
\* by row, the values of the source chunk's target, a missing one still
\* missing.
C13_TargetUnchanged ==
    ~FastCopyRun =>
        \A k \in 1..Len(writer.written) :
            LET f == writer.written[k]
                j == IndexOf(f.columns, args.target_column)
            IN  /\ Len(f.data) = Len(Slice(k))
                /\ \A i \in 1..Len(f.data) :
                      f.data[i][j] = Slice(k)[i][args.target_column]

C13_Witness ==
    /\ ~FastCopyRun
    /\ Len(writer.written) >= 2
    /\ \E i \in 1..Len(Slice(2)) : Slice(2)[i][args.target_column] = NA
    /\ \E i \in 1..Len(Slice(1)) : Slice(1)[i][args.target_column] # NA

\* C14: once a chunk has been written, the prior output has been cleared and
\* the schema has been declared exactly once, with the columns of the first
\* chunk written.
C14_ClearedAndSchemaOnce ==
    writer.written # <<>>
        => /\ output.clear_calls >= 1
           /\ ~output.prior
           /\ Len(output.schemas) = 1
           /\ output.schemas[1] = writer.written[1].columns

\* C15: a writer that has been opened is closed exactly once by the end of
\* the run, on the normal path and on every failing one.
C15_WriterClosedOnce ==
    /\ writer.closed <= writer.opened
    /\ RunEnded => writer.closed = writer.opened

C15_Witness ==
    /\ pc = "fc_raised"
    /\ err = "WriteError"
    /\ writer.written # <<>>
    /\ writer.opened = 1
    /\ writer.closed = 1

\* C16: when chunk k of auto_prepare fails, the error leaves the function:
\* the output holds the chunks 1..k-1 in source order, chunk k is not tried
\* again and no later chunk is read.
C16_FailureEndsRun ==
    /\ [](err = "ChunkProcessingError"
            => /\ pc = "raised"
               /\ Len(writer.written) = chunk_count - 1
               /\ \A k \in 1..Len(writer.written) :
                     writer.written[k] = ChunkFinal(Slice(k))
               /\ cursor = Min(chunk_count * args.chunk_size, Len(src.rows)))
    /\ [][err = "ChunkProcessingError" => UNCHANGED vars]_vars

C16_Witness ==
    /\ err = "ChunkProcessingError"
    /\ pc = "raised"
    /\ chunk_count = 2
    /\ Len(writer.written) = 1
    /\ cursor < Len(src.rows)

\* C17: retention is monotonic in the thresholds: a feature kept under
\* thresholds that are both at least the ones of the run is kept by the run,
\* whatever its mutual information is where the run did not compute it.
C17_RetentionMonotonic ==
    \A r2t \in R2Thresholds : \A mit \in MiThresholds :
        (r2t >= args.r2_threshold /\ mit >= args.mi_threshold)
            => \A f \in DOMAIN scores :
                  \A mi \in (IF scores[f].mi = NA THEN MiScores
                             ELSE {scores[f].mi[1]}) :
                      Keep(scores[f].r2, mi, r2t, mit)
                          => f \in Range(selected_features)

C17_Witness ==
    /\ SelectionPassEnded
    /\ \E r2t \in R2Thresholds : \E mit \in MiThresholds :
          /\ r2t >= args.r2_threshold
          /\ mit > args.mi_threshold
          /\ \E f \in Range(selected_features) :
                /\ scores[f].mi # NA
                /\ ~Keep(scores[f].r2, scores[f].mi[1], r2t, mit)

\* C18: every column of the sample other than the target is in exactly one
\* of the numeric and the categorical list.
C18_EveryFeatureClassified ==
    (TargetPresent /\ pc \notin {"read_sample", "check_target", "classify"})
        => \A c \in Range(src.columns) \ {args.target_column} :
              (c \in Range(numeric_cols)) # (c \in Range(categorical_cols))

RECURSIVE ConcatRows(_)
ConcatRows(chunks) ==
    IF chunks = <<>> THEN <<>> ELSE Head(chunks).data \o ConcatRows(Tail(chunks))

\* C19: with sampling_limit >= the number of rows of the source, what the
\* run fits and writes is fixed by the source, the other arguments and the
\* scores, with no part for chunk_size: the statistics and the encoder
\* mapping are those of the whole source, the retained features those the
\* scores qualify, and the written rows put together are the transform of the
\* source taken as one chunk.
C19_ChunkSizeIrrelevant ==
    (TargetPresent /\ args.sampling_limit >= Len(src.rows))
        => /\ imputer # <<>> =>
                 imputer[1].statistics_ =
                     ImputerFit(args.impute_strategy, src.rows, numeric_cols)
           /\ encoder # <<>> =>
                 encoder[1].categories_ = EncoderFit(src.rows, categorical_cols)
           /\ selected_features =
                 SelectSeq(SubSeq(candidates, 1, Min(col_idx - 1, Len(candidates))),
                           Qualifies)
           /\ (pc = "returned" /\ writer.opened > 0) =>
                 /\ ConcatRows(writer.written) = ChunkFinal(src.rows).data
                 /\ \A k \in 1..Len(writer.written) :
                       writer.written[k].columns = ChunkFinal(src.rows).columns

C19_Witness ==
    /\ pc = "returned"
    /\ args.sampling_limit >= Len(src.rows)
    /\ Len(writer.written) >= 2
    /\ imputer # <<>>
    /\ encoder # <<>>
    /\ \E i \in 1..Len(src.rows) : \E c \in Range(numeric_cols) : src.rows[i][c] = NA

\* C20: mutual information is computed for a feature only when its R2 is
\* below r2_threshold, and then once.
C20_MiOnlyWhenR2Fails ==
    /\ Range(mi_log) \subseteq DOMAIN scores
    /\ \A f \in DOMAIN scores :
          /\ Count(mi_log, f) = (IF scores[f].r2 < args.r2_threshold THEN 1 ELSE 0)
          /\ (scores[f].mi # NA) <=> (scores[f].r2 < args.r2_threshold)

C20_Witness ==
    /\ SelectionPassEnded
    /\ \E f \in DOMAIN scores : scores[f].r2 >= args.r2_threshold /\ Count(mi_log, f) = 0
    /\ \E f \in DOMAIN scores : Count(mi_log, f) = 1

\* the scoring loop has been entered: y_encoded is set
Scoring == pc \in {"select", "get_writer", "iterate", "returned"}

\* the target values of the sample rows with a target
TargetOfValidRows ==
    LET rows == ValidRows(Sample, args.target_column)
    IN  [i \in 1..Len(rows) |-> rows[i][args.target_column][1]]

StrBefore(u, v) == IndexOf(StrOrder, u) < IndexOf(StrOrder, v)

\* position of the first row with the value of row i
FirstSeen(y, i) == CHOOSE m \in 1..i : y[m] = y[i] /\ \A n \in 1..(m - 1) : y[n] # y[i]

\* C21 as stated: for a text target the codes 0, 1, ... are given to the
\* distinct target values in the order of their first appearance in the
\* valid rows of the sample.
C21_CodesInFirstSeenOrder ==
    (Scoring /\ Dtype(args.target_column) # "number")
        => LET y == TargetOfValidRows
           IN  /\ Len(y_encoded) = Len(y)
               /\ Range(y_encoded) = 0..(Cardinality(Range(y)) - 1)
               /\ \A i, j \in 1..Len(y) :
                     (y_encoded[i] < y_encoded[j])
                         <=> (FirstSeen(y, i) < FirstSeen(y, j))

\* C21 amended: for a text target the codes 0, 1, ... are given to the
\* distinct target values in the sorted order of the values as strings, the
\* same for every run on the same sample.
C21_CodesInSortedOrder ==
    (Scoring /\ Dtype(args.target_column) # "number")
        => LET y == TargetOfValidRows
           IN  /\ Len(y_encoded) = Len(y)
               /\ Range(y_encoded) = 0..(Cardinality(Range(y)) - 1)
               /\ \A i, j \in 1..Len(y) :
                     (y_encoded[i] < y_encoded[j]) <=> StrBefore(y[i], y[j])

C21_Witness ==
    /\ Scoring
    /\ Dtype(args.target_column) # "number"
    /\ \E i, j \in 1..Len(y_encoded) :
          /\ i < j
          /\ StrBefore(TargetOfValidRows[j], TargetOfValidRows[i])
          /\ y_encoded[j] = 0
          /\ y_encoded[i] = 1

\* C23: every chunk auto_prepare writes has the retained features, in the
\* order of their retention, then the target column, as its columns.
C23_RetainedThenTarget ==
    \A k \in 1..Len(writer.written) :
        writer.written[k].columns = selected_features \o <<args.target_column>>

Listing == [i \in 1..Len(folder.files) |-> folder.files[i].path]

\* the selection list_files is called with
Satisfies(q) ==
    IF NotPath(args.path) THEN TRUE
    ELSE IF args.is_regex THEN PatternSearch(args.path[1], q)
    ELSE /\ Len(args.path[1]) <= Len(q)
         /\ \A i \in 1..Len(args.path[1]) : q[i] = args.path[1][i]

\* r is taken from s in the order of s, no element of s more than once
InOrderOf(r, s) ==
    \E f \in [1..Len(r) -> 1..Len(s)] :
        /\ \A i \in 1..Len(r) : r[i] = s[f[i]]
        /\ \A i, j \in 1..Len(r) : i < j => f[i] < f[j]

\* C22: list_files returns, in the order of the listing and with nothing
\* added, exactly the paths of the listing that satisfy the selection (the
\* prefix, or the pattern by a regex search); with path None or empty, the
\* whole listing.
C22_ListFilesSelects ==
    pc = "ls_returned"
        => /\ returned # NA
           /\ InOrderOf(returned[1], Listing)
           /\ \A k \in 1..Len(Listing) :
                 Satisfies(Listing[k])
                     <=> \E i \in 1..Len(returned[1]) : returned[1][i] = Listing[k]
           /\ NotPath(args.path) => returned[1] = Listing

C22_Witness ==
    /\ pc = "ls_returned"
    /\ args.is_regex
    /\ ~NotPath(args.path)
    /\ Len(Listing) = 2
    /\ Len(returned[1]) = 1
    /\ returned[1][1] = Listing[2]
    /\ ~StartsWith(returned[1][1], args.path[1])

\* delete_path is called in this step
DeleteInvoked ==
    /\ \E k \in 1..Len(folder'.calls) : folder'.calls[k] = "delete_path"
    /\ \A k \in 1..Len(folder.calls) : folder.calls[k] # "delete_path"

\* C24: move_file deletes the source only after the copy has completed: at
\* the call of delete_path the destination holds the data of the source; when
\* the copy raises, delete_path is not called, a source that existed still
\* exists and the error leaves move_file; when the delete raises, the error
\* leaves move_file with the source and the destination both present.
C24_DeleteOnlyAfterCopy ==
    /\ [][DeleteInvoked
            => /\ err = "none"
               /\ Exists(folder.files, args.src_path)
               /\ Exists(folder.files, args.dst_path)
               /\ DataOf(folder.files, args.dst_path)
                      = DataOf(folder.files, args.src_path)]_vars
    /\ [][(pc' = "mv_raised" /\ err' = "CopyError")
            => /\ \A k \in 1..Len(folder'.calls) : folder'.calls[k] # "delete_path"
               /\ Exists(folder.files, args.src_path)
                      => Exists(folder'.files, args.src_path)]_vars
    /\ [](pc = "mv_raised" => err \in {"CopyError", "DeleteError"})
    /\ [](pc = "mv_returned" => err = "none")
    /\ []((pc = "mv_raised" /\ err = "DeleteError")
            => /\ Exists(folder.files, args.src_path)
               /\ Exists(folder.files, args.dst_path))

C24_Witness ==
    /\ pc = "mv_raised"
    /\ err = "DeleteError"
    /\ args.src_path # args.dst_path
    /\ Exists(folder.files, args.src_path)
    /\ Exists(folder.files, args.dst_path)
    /\ DataOf(folder.files, args.dst_path) = args.src_path

====
